---- MODULE Spec2Model ----
(***************************************************************************)
(* maplib: conversion between WGS84 latitude/longitude (LatLon) and a      *)
(* position vector in metres relative to a reference point (PositionXY).  *)
(*                                                                         *)
(* Python floats are modelled as records [k, v]: k is the class of the    *)
(* value ("fin", "nan", "inf", or "ValueError" for a call of the math      *)
(* module that raised) and v a fixed-point integer.  Three fixed-point     *)
(* formats are used, by the position of the value in the code:            *)
(*   degrees            v = degrees * DegScale   (micro-degrees)           *)
(*   radians, ratios    v = value   * Scale      (1e-8)                    *)
(*   metres             v = metres  * MetreScale (decimetres)              *)
(* TLC integers are 32 bits wide, so products and quotients are computed   *)
(* limb-wise (MulFx, MulDivRem) and squares of metres as two-limb numbers. *)
(***************************************************************************)
EXTENDS Integers, Sequences, FiniteSets, TLC

Scale == 10^8
Limb == 10^4
DegScale == 10^6
MetreScale == 10^1

Abs(n) == IF n < 0 THEN -n ELSE n
Sgn(n) == IF n < 0 THEN -1 ELSE IF n > 0 THEN 1 ELSE 0

(* Earth's radius in metres *)
EARTH_RADIUS == 6378137

(***************************************************************************)
(* Fixed-point arithmetic standing for the float operations *, /, sqrt.    *)
(***************************************************************************)

\* a * b / Scale, truncated toward zero (|a| * |b| < 2^31 * Scale).
MulFx(a, b) ==
  LET a1 == Abs(a) \div Limb
      a0 == Abs(a) % Limb
      b1 == Abs(b) \div Limb
      b0 == Abs(b) % Limb
  IN  Sgn(a) * Sgn(b) * (a1 * b1 + ((a1 * b0 + a0 * b1) + (a0 * b0) \div Limb) \div Limb)

\* <<q, r>> with a * b = q * c + r and 0 <= r < c, for a, b >= 0 and c > 0.
RECURSIVE MulDivRem(_, _, _)
MulDivRem(a, b, c) ==
  IF b = 0 THEN <<0, 0>>
  ELSE LET h == MulDivRem(a, b \div 2, c)
           t == 2 * h[2] + (b % 2) * a
       IN  <<2 * h[1] + t \div c, t % c>>

\* floor((hi * Scale + lo) / c) for hi, lo >= 0 and c > 0.
DivWide(hi, lo, c) ==
  LET m == MulDivRem(hi, Scale, c)
  IN  m[1] + (m[2] + lo) \div c

\* a * Scale / b, truncated toward zero (b # 0).
DivFx(a, b) == Sgn(a) * Sgn(b) * DivWide(Abs(a), 0, Abs(b))

RECURSIVE ISqrtIter(_, _, _)
ISqrtIter(n, r, s) ==
  IF s >= r THEN r ELSE ISqrtIter(n, s, (s + n \div s) \div 2)

\* floor(sqrt(n)) for 0 <= n < 2^31.
ISqrt(n) == IF n = 0 THEN 0 ELSE IF n > 46341 THEN ISqrtIter(n, 46342, 46341) ELSE ISqrtIter(n, n + 1, n)

\* Newton's iteration from above: r, then s = (r + n / r) / 2, until it stops falling
RECURSIVE SqrtWideIter(_, _, _, _)
SqrtWideIter(hi, lo, r, s) ==
  IF s >= r THEN r ELSE SqrtWideIter(hi, lo, s, (s + DivWide(hi, lo, s)) \div 2)

\* floor(sqrt(hi * Scale + lo)) for hi, lo >= 0.
SqrtWide(hi, lo) ==
  IF hi = 0 THEN ISqrt(lo)
  ELSE SqrtWideIter(hi, lo, (ISqrt(hi) + 2) * Limb, (ISqrt(hi) + 1) * Limb)

\* sqrt of a Scale-format value v >= 0, in Scale format.
SqrtFx(v) == SqrtWide(v, 0)

\* <<hi, lo>> with n * n = hi * Scale + lo and 0 <= lo < Scale.
SqWide(n) ==
  LET n1 == Abs(n) \div Limb
      n0 == Abs(n) % Limb
      mid == 2 * n1 * n0
      low == (mid % Limb) * Limb + n0 * n0
  IN  <<n1 * n1 + mid \div Limb + low \div Scale, low % Scale>>

(***************************************************************************)
(* The functions of Python's math module, on Scale-format radians.         *)
(***************************************************************************)

Pi == 314159265
HalfPi == 157079633
QuarterPi == 78539816
TwoPi == 628318531
\* pi / 180 * Scale / DegScale and 180 / pi * DegScale / Scale, in Scale format
RadPerDeg == 174532925
DegPerRad == 57295780
\* pi / 180 in Scale format
PiOver180 == 1745329
\* tan(pi / 8) in Scale format
TanEighthPi == 41421356

\* sin(u) for 0 <= u <= pi/4: u(1 - z/6(1 - z/20(1 - z/42(1 - z/72(1 - z/110))))), z = u^2
SinSeries(u) ==
  LET z  == MulFx(u, u)
      t5 == Scale - MulFx(z, Scale) \div 110
      t4 == Scale - MulFx(z, t5) \div 72
      t3 == Scale - MulFx(z, t4) \div 42
      t2 == Scale - MulFx(z, t3) \div 20
      t1 == Scale - MulFx(z, t2) \div 6
  IN  MulFx(u, t1)

\* cos(u) for 0 <= u <= pi/4: 1 - z/2(1 - z/12(1 - z/30(1 - z/56(1 - z/90(1 - z/132)))))
CosSeries(u) ==
  LET z  == MulFx(u, u)
      t6 == Scale - MulFx(z, Scale) \div 132
      t5 == Scale - MulFx(z, t6) \div 90
      t4 == Scale - MulFx(z, t5) \div 56
      t3 == Scale - MulFx(z, t4) \div 30
      t2 == Scale - MulFx(z, t3) \div 12
  IN  Scale - MulFx(z, t2) \div 2

\* sin and cos on the first quadrant, 0 <= u <= pi/2
SinQ(u) == IF u <= QuarterPi THEN SinSeries(u) ELSE CosSeries(HalfPi - u)
CosQ(u) == IF u <= QuarterPi THEN CosSeries(u) ELSE SinSeries(HalfPi - u)

\* the first-quadrant angle with the sine and cosine of m, up to sign, 0 <= m < 2 pi
Fold(m) ==
  IF m <= HalfPi THEN m
  ELSE IF m <= Pi THEN Pi - m
  ELSE IF m <= Pi + HalfPi THEN m - Pi
  ELSE TwoPi - m

\* sin and cos of m with 0 <= m < 2 pi
SinPos(m) == (IF m <= Pi THEN 1 ELSE -1) * SinQ(Fold(m))
CosPos(m) == (IF m <= HalfPi \/ m > Pi + HalfPi THEN 1 ELSE -1) * CosQ(Fold(m))

SinFx(x) == Sgn(x) * SinPos(Abs(x) % TwoPi)
CosFx(x) == CosPos(Abs(x) % TwoPi)

\* 1/(2k+1) - z(1/(2k+3) - z(...)), the alternating series of atan(u)/u with z = u^2
RECURSIVE AtanSeries(_, _)
AtanSeries(z, k) ==
  IF k >= 11 THEN Scale \div (2 * k + 1)
  ELSE Scale \div (2 * k + 1) - MulFx(z, AtanSeries(z, k + 1))

\* atan(u) for 0 <= u <= tan(pi/8)
AtanSmall(u) == MulFx(u, AtanSeries(MulFx(u, u), 0))

\* atan(t) for a ratio 0 <= t <= 1: atan(t) = pi/4 - atan((1 - t) / (1 + t))
AtanUnit(t) ==
  IF t <= TanEighthPi THEN AtanSmall(t)
  ELSE QuarterPi - AtanSmall(DivFx(Scale - t, Scale + t))

\* atan2(y, x) of two integers in the same format; atan2(0, 0) = 0 as in Python.
\* Signed zeros are not told apart: atan2(0, x) is pi for every x < 0.
Atan2Fx(y, x) ==
  LET ay == Abs(y)
      ax == Abs(x)
      a0 == IF ay = 0 /\ ax = 0 THEN 0
            ELSE AtanUnit(DivFx(IF ay <= ax THEN ay ELSE ax, IF ay <= ax THEN ax ELSE ay))
  IN  (IF y < 0 THEN -1 ELSE 1)
      * ((IF x < 0 THEN Pi ELSE 0)
         + (IF x < 0 THEN -1 ELSE 1) * ((IF ay <= ax THEN 0 ELSE HalfPi)
                                        + (IF ay <= ax THEN 1 ELSE -1) * a0))

\* asin(v) for -Scale <= v <= Scale
AsinFx(v) == Atan2Fx(v, SqrtFx(MulFx(Scale - v, Scale + v)))

(***************************************************************************)
(* Python floats: finite fixed-point values, nan, +/-inf, and the outcome  *)
(* "ValueError" of a math call outside its domain, which every later       *)
(* operation of the expression passes on (the exception unwinds the call). *)
(***************************************************************************)

Fin(v) == [k |-> "fin", v |-> v]
NaN == [k |-> "nan", v |-> 0]
PosInf == [k |-> "inf", v |-> 1]
NegInf == [k |-> "inf", v |-> -1]
ValueError == [k |-> "ValueError", v |-> 0]
One == Fin(Scale)

Raised(a) == a.k = "ValueError"

\* a - b
FSub(a, b) ==
  IF Raised(a) THEN a ELSE IF Raised(b) THEN b
  ELSE IF a.k = "nan" \/ b.k = "nan" THEN NaN
  ELSE IF a.k = "inf" THEN (IF b.k = "inf" /\ b.v = a.v THEN NaN ELSE a)
  ELSE IF b.k = "inf" THEN [b EXCEPT !.v = -b.v]
  ELSE Fin(a.v - b.v)

\* a + b
FAdd(a, b) ==
  IF Raised(a) THEN a ELSE IF Raised(b) THEN b
  ELSE IF a.k = "nan" \/ b.k = "nan" THEN NaN
  ELSE IF a.k = "inf" THEN (IF b.k = "inf" /\ b.v # a.v THEN NaN ELSE a)
  ELSE IF b.k = "inf" THEN b
  ELSE Fin(a.v + b.v)

\* a * b, one factor in Scale format
FMul(a, b) ==
  IF Raised(a) THEN a ELSE IF Raised(b) THEN b
  ELSE IF a.k = "nan" \/ b.k = "nan" THEN NaN
  ELSE IF a.k = "inf" \/ b.k = "inf"
       THEN (IF Sgn(a.v) * Sgn(b.v) = 0 THEN NaN
             ELSE [k |-> "inf", v |-> Sgn(a.v) * Sgn(b.v)])
  ELSE Fin(MulFx(a.v, b.v))

\* a / 2
FHalf(a) == IF a.k = "fin" THEN Fin(Sgn(a.v) * (Abs(a.v) \div 2)) ELSE a

\* a / b of two values of one format, b finite and not zero; the ratio in Scale format
FDiv(a, b) == IF a.k = "fin" THEN Fin(DivFx(a.v, b.v)) ELSE a

\* math.radians of a value in degrees format, the result in Scale format
FRadians(a) == IF a.k = "fin" THEN Fin(MulFx(a.v, RadPerDeg)) ELSE a

\* math.radians of a value in Scale format (a value already in radians taken
\* for degrees): a * pi / 180 in the same format
FRadiansOfRadians(a) == IF a.k = "fin" THEN Fin(MulFx(a.v, PiOver180)) ELSE a

\* math.degrees of a value in Scale format, the result in degrees format
FDegrees(a) == IF a.k = "fin" THEN Fin(MulFx(a.v, DegPerRad)) ELSE a

\* math.cos, math.sin: a ValueError (math domain error) on an infinity
FCos(a) ==
  IF a.k = "fin" THEN Fin(CosFx(a.v)) ELSE IF a.k = "inf" THEN ValueError ELSE a

FSin(a) ==
  IF a.k = "fin" THEN Fin(SinFx(a.v)) ELSE IF a.k = "inf" THEN ValueError ELSE a

\* math.sqrt: a ValueError on a negative argument
FSqrt(a) ==
  IF a.k = "fin" THEN (IF a.v < 0 THEN ValueError ELSE Fin(SqrtFx(a.v)))
  ELSE IF a.k = "inf" /\ a.v < 0 THEN ValueError
  ELSE a

\* math.asin: a ValueError outside [-1, 1]
FAsin(a) ==
  IF a.k = "fin" THEN (IF Abs(a.v) > Scale THEN ValueError ELSE Fin(AsinFx(a.v)))
  ELSE IF a.k = "inf" THEN ValueError
  ELSE a

\* math.atan2(y, x), y and x of one format
FAtan2(y, x) ==
  IF Raised(y) THEN y ELSE IF Raised(x) THEN x
  ELSE IF y.k = "nan" \/ x.k = "nan" THEN NaN
  ELSE IF y.k = "inf" /\ x.k = "inf"
       THEN Fin(y.v * (IF x.v > 0 THEN QuarterPi ELSE Pi - QuarterPi))
  ELSE IF y.k = "inf" THEN Fin(y.v * HalfPi)
  ELSE IF x.k = "inf" THEN Fin(IF x.v > 0 THEN 0 ELSE IF y.v < 0 THEN -Pi ELSE Pi)
  ELSE Fin(Atan2Fx(y.v, x.v))

\* sqrt(x**2 + y**2) of two values in metres format: the squares are two-limb numbers
FHypot(x, y) ==
  IF Raised(x) THEN x ELSE IF Raised(y) THEN y
  ELSE IF x.k = "nan" \/ y.k = "nan" THEN NaN
  ELSE IF x.k = "inf" \/ y.k = "inf" THEN PosInf
  ELSE LET sx == SqWide(x.v)
           sy == SqWide(y.v)
           lo == sx[2] + sy[2]
       IN  Fin(SqrtWide(sx[1] + sy[1] + lo \div Scale, lo % Scale))

(***************************************************************************)
(* The classes.  A LatLon is [cls, lat, lon], a PositionXY [cls, x, y,     *)
(* refPt] with refPt the address of a LatLon (Python stores the reference  *)
(* to the object it was given).                                            *)
(***************************************************************************)

LatLon(lat, lon) == [cls |-> "LatLon", lat |-> lat, lon |-> lon]
PositionXY(x, y, refPt) == [cls |-> "PositionXY", x |-> x, y |-> y, refPt |-> refPt]

\* distFromPoint with the cosine of the reference's latitude taken twice
distFromPointOneLat(self, refPt) ==
  LET lat1 == FRadians(refPt.lat)
      dLat == FRadians(FSub(self.lat, refPt.lat))
      dLon == FRadians(FSub(self.lon, refPt.lon))
      h_lat == FHalf(FSub(One, FCos(dLat)))
      h_lon == FHalf(FSub(One, FCos(dLon)))
  IN  FMul(FAsin(FSqrt(FAdd(h_lat, FMul(FMul(FCos(lat1), FCos(lat1)), h_lon)))),
           Fin(2 * EARTH_RADIUS * MetreScale))

\* distFromPoint with dLat the sum of the latitudes
distFromPointSumLat(self, refPt) ==
  LET lat1 == FRadians(refPt.lat)
      lat2 == FRadians(self.lat)
      dLat == FRadians(FAdd(self.lat, refPt.lat))
      dLon == FRadians(FSub(self.lon, refPt.lon))
      h_lat == FHalf(FSub(One, FCos(dLat)))
      h_lon == FHalf(FSub(One, FCos(dLon)))
  IN  FMul(FAsin(FSqrt(FAdd(h_lat, FMul(FMul(FCos(lat1), FCos(lat2)), h_lon)))),
           Fin(2 * EARTH_RADIUS * MetreScale))

\* LatLon.distFromPoint: the Haversine distance from another point, in metres format
distFromPoint(self, refPt) ==
  LET lat1 == FRadians(refPt.lat)
      lat2 == FRadians(self.lat)
      dLat == FRadians(FSub(self.lat, refPt.lat))
      dLon == FRadians(FSub(self.lon, refPt.lon))
      h_lat == FHalf(FSub(One, FCos(dLat)))
      h_lon == FHalf(FSub(One, FCos(dLon)))
  IN  FMul(FAsin(FSqrt(FAdd(h_lat, FMul(FMul(FCos(lat1), FCos(lat2)), h_lon)))),
           Fin(2 * EARTH_RADIUS * MetreScale))

\* step 3 of toXY with the cosine in both components
VectorCosCos(d, bearing) == <<FMul(d, FCos(bearing)), FMul(d, FCos(bearing))>>

\* step 3 of toXY with sine and cosine exchanged
VectorSinCos(d, bearing) == <<FMul(d, FSin(bearing)), FMul(d, FCos(bearing))>>

\* step 3 of toXY: <<new_x, new_y>> from the distance and the bearing
Vector(d, bearing) == <<FMul(d, FCos(bearing)), FMul(d, FSin(bearing))>>

\* LatLon.toXY: <<new_x, new_y>>, the position vector relative to refPt
toXY(self, refPt) ==
  LET lat1 == FRadians(refPt.lat)
      lat2 == FRadians(self.lat)
      dLon == FRadians(FSub(self.lon, refPt.lon))
      y_temp == FMul(FSin(dLon), FCos(lat2))
      x_temp == FSub(FMul(FCos(lat1), FSin(lat2)),
                     FMul(FMul(FSin(lat1), FCos(lat2)), FCos(dLon)))
      bearing == FAtan2(y_temp, x_temp)
      d == distFromPoint(self, refPt)
  IN  Vector(d, bearing)

\* new_lon of toLatLon, in radians; dR is d/R
NewLon(lat, lon, dR, bearing, new_lat) ==
  FAdd(lon, FAtan2(FMul(FMul(FSin(bearing), FSin(dR)), FCos(lat)),
                   FSub(FCos(dR), FMul(FSin(lat), FSin(new_lat)))))

\* <<degrees(new_lat), degrees(new_lon)>> with new_lat computed once
Arrival(lat, lon, dR, bearing, new_lat) ==
  <<FDegrees(new_lat), FDegrees(NewLon(lat, lon, dR, bearing, new_lat))>>

\* new_lat and new_lon of toLatLon; dR is d/R
Destination(lat, lon, dR, bearing) ==
  Arrival(lat, lon, dR, bearing,
          FAsin(FAdd(FMul(FSin(lat), FCos(dR)),
                     FMul(FMul(FCos(lat), FSin(dR)), FCos(bearing)))))

\* toLatLon with the reference's latitude and longitude exchanged
toLatLonLonLat(self, ref) ==
  LET lat == FRadians(ref.lon)
      lon == FRadians(ref.lat)
      d == FHypot(self.x, self.y)
      bearing == FRadiansOfRadians(FAtan2(self.y, self.x))
      R == Fin(EARTH_RADIUS * MetreScale)
  IN  Destination(lat, lon, FDiv(d, R), bearing)

\* PositionXY.toLatLon: <<lat, lon>> in degrees format; ref is the object self.refPt
toLatLon(self, ref) ==
  LET lat == FRadians(ref.lat)
      lon == FRadians(ref.lon)
      d == FHypot(self.x, self.y)
      bearing == FRadiansOfRadians(FAtan2(self.y, self.x))
      R == Fin(EARTH_RADIUS * MetreScale)
  IN  Destination(lat, lon, FDiv(d, R), bearing)

(***************************************************************************)
(* The state: the objects a caller of the library holds.                   *)
(***************************************************************************)

VARIABLES
  heap,     \* the objects, by address 1..Len(heap)
  born,     \* for each object, how it was constructed (history)
  ret,      \* the last call: its arguments and its outcome
  assigns   \* the number of field assignments the caller has made

vars == <<heap, born, ret, assigns>>

\* the most PositionXY objects, LatLon objects returned by toLatLon, and
\* field assignments of one behaviour
MaxPos == 1
MaxOut == 1
MaxAssign == 1

Deg(d) == Fin(d * DegScale)
Metres(m) == Fin(m * MetreScale)

\* the coordinates a caller passes: finite ones (a latitude of 100 degrees is out
\* of range and accepted), and the non-finite floats
Lats == {Deg(-45), Deg(0), Deg(1), Deg(30), Deg(90), Deg(100)}
Lons == {Deg(0), Deg(1), Deg(120)}
NonFinite == {PosInf, NaN}
Offsets == {Metres(0)}

Addrs(cls) == {i \in DOMAIN heap : heap[i].cls = cls}
Made(by) == {i \in DOMAIN heap : born[i].by = by}

NoCall == [op |-> "none", self |-> 0, refPt |-> 0, val |-> Fin(0), obj |-> 0, exc |-> "None"]
Call(op, self, refPt, val, obj) ==
  [op |-> op, self |-> self, refPt |-> refPt,
   val |-> IF Raised(val) THEN Fin(0) ELSE val,
   obj |-> IF Raised(val) THEN 0 ELSE obj,
   exc |-> IF Raised(val) THEN "ValueError" ELSE "None"]

\* how an object came to be: by whom, its fields then, the address it was made
\* from (toXY: refPt, toLatLon: the position), the LatLon toXY was called on, the
\* fields of the reference then, and whether the position and its reference
\* still had, at a toLatLon call, the fields toXY gave and read
Birth(by, init, src, self, refval, clean) ==
  [by |-> by, init |-> init, src |-> src, self |-> self, refval |-> refval, clean |-> clean]

NoPoint == LatLon(NaN, NaN)

\* the state after the caller has constructed two points
InitWith(lats, lons) ==
  /\ \E a, b \in {LatLon(la, lo) : la \in lats, lo \in lons} :
       /\ heap = <<a, b>>
       /\ born = <<Birth("caller", a, 0, NoPoint, NoPoint, TRUE),
                   Birth("caller", b, 0, NoPoint, NoPoint, TRUE)>>
  /\ ret = NoCall
  /\ assigns = 0

\* PositionXY(x, y, refPt) constructed by the caller
NewPositionXY(x, y, r) ==
  /\ Cardinality(Addrs("PositionXY")) < MaxPos
  /\ LET obj == PositionXY(x, y, r)
     IN  /\ heap' = Append(heap, obj)
         /\ born' = Append(born, Birth("caller", obj, r, NoPoint, heap[r], TRUE))
         /\ ret' = Call("PositionXY", 0, r, Fin(0), Len(heap) + 1)
  /\ UNCHANGED assigns

\* heap[i].distFromPoint(heap[j])
DistFromPoint(i, j) ==
  /\ ret' = Call("distFromPoint", i, j, distFromPoint(heap[i], heap[j]), 0)
  /\ UNCHANGED <<heap, born, assigns>>

\* the outcome of a call that returns the new object obj, made of the floats v:
\* the object is allocated unless computing one of the floats raised
Return(op, self, refPt, v, obj, birth) ==
  IF Raised(v[1]) \/ Raised(v[2])
  THEN /\ ret' = Call(op, self, refPt, ValueError, 0)
       /\ UNCHANGED <<heap, born>>
  ELSE /\ ret' = Call(op, self, refPt, Fin(0), Len(heap) + 1)
       /\ heap' = Append(heap, obj)
       /\ born' = Append(born, birth)

\* the last line of toXY returning PositionXY(new_x, new_y, self)
ReturnXYSelf(i, j, v) ==
  Return("toXY", i, j, v, PositionXY(v[1], v[2], i),
         Birth("toXY", PositionXY(v[1], v[2], i), j, heap[i], heap[j], TRUE))

\* PositionXY(new_x, new_y, refPt), the last line of toXY, v = <<new_x, new_y>>
ReturnXY(i, j, v) ==
  Return("toXY", i, j, v, PositionXY(v[1], v[2], j),
         Birth("toXY", PositionXY(v[1], v[2], j), j, heap[i], heap[j], TRUE))

\* LatLon(degrees(new_lat), degrees(new_lon)), the last line of toLatLon
ReturnLatLon(k, v) ==
  Return("toLatLon", k, 0, v, LatLon(v[1], v[2]),
         Birth("toLatLon", LatLon(v[1], v[2]), k, NoPoint, NoPoint,
               heap[k] = born[k].init /\ heap[heap[k].refPt] = born[k].refval))

\* heap[i].toXY(heap[j]): the new PositionXY holds the reference j it was given
ToXY(i, j) ==
  /\ Cardinality(Addrs("PositionXY")) < MaxPos
  /\ ReturnXY(i, j, toXY(heap[i], heap[j]))
  /\ UNCHANGED assigns

\* heap[k].toLatLon()
ToLatLon(k) ==
  /\ Cardinality(Made("toLatLon")) < MaxOut
  /\ ReturnLatLon(k, toLatLon(heap[k], heap[heap[k].refPt]))
  /\ UNCHANGED assigns

\* heap[i].f = v by the caller: the dataclasses are not frozen
SetAttr(i, f, v) ==
  /\ assigns < MaxAssign
  /\ f \in DOMAIN heap[i] \ {"cls"}
  /\ heap[i][f] # v
  /\ heap' = [heap EXCEPT ![i][f] = v]
  /\ ret' = Call("setattr", i, 0, Fin(0), 0)
  /\ assigns' = assigns + 1
  /\ UNCHANGED born

\* the calls of the library on finite coordinates: Init draws the point
\* (address 1) and the reference (address 2), every pair of them, and the calls
\* are made on the point with the reference
Init == InitWith(Lats, Lons)

Next ==
  \/ \E x, y \in Offsets : NewPositionXY(x, y, 2)
  \/ DistFromPoint(1, 2)
  \/ ToXY(1, 2)
  \/ \E k \in Addrs("PositionXY") : ToLatLon(k)

Spec == Init /\ [][Next]_vars

\* the same calls, with non-finite floats and with the caller assigning fields
CallerInit == InitWith({Deg(0), Deg(1)} \cup NonFinite, {Deg(0)})

CallerNext ==
  \/ \E r \in Addrs("LatLon"), x, y \in Offsets \cup {PosInf} : NewPositionXY(x, y, r)
  \/ \E i, j \in Addrs("LatLon") : DistFromPoint(i, j)
  \/ \E i, j \in Addrs("LatLon") : ToXY(i, j)
  \/ \E k \in Addrs("PositionXY") : ToLatLon(k)
  \/ \E i \in Addrs("LatLon"), f \in {"lat", "lon"}, v \in {Deg(1)} : SetAttr(i, f, v)
  \/ \E k \in Addrs("PositionXY"), f \in {"x", "y"}, v \in {Metres(1000)} : SetAttr(k, f, v)
  \/ \E k \in Addrs("PositionXY"), r \in Addrs("LatLon") : SetAttr(k, "refPt", r)

CallerSpec == CallerInit /\ [][CallerNext]_vars

(***************************************************************************)
(* The properties.                                                         *)
(***************************************************************************)

\* 1e-4 degrees, and a distance tolerance of 1e-6 relative plus one metre
DegTol == DegScale \div 10^4
DistTol(d) == Abs(d) \div 10^6 + MetreScale

Close(a, b, tol) == a.k = "fin" /\ b.k = "fin" /\ Abs(a.v - b.v) <= tol
FiniteLatLon(p) == p.lat.k = "fin" /\ p.lon.k = "fin"
InRange(p) == Abs(p.lat.v) <= 90 * DegScale

\* p within one degree of ref in latitude and in longitude (within a few hundred km)
Nearby(p, ref) ==
  /\ FiniteLatLon(p) /\ FiniteLatLon(ref) /\ InRange(p) /\ InRange(ref)
  /\ Abs(p.lat.v - ref.lat.v) <= DegScale
  /\ Abs(p.lon.v - ref.lon.v) <= DegScale

\* the position k was returned by toXY and o by toLatLon called on k, with
\* neither k nor its reference assigned to in between
RoundTrip(o, k) ==
  /\ o \in Made("toLatLon") /\ born[o].src = k /\ born[o].clean
  /\ k \in Made("toXY")

\* C1: toLatLon of the position toXY(p, ref) returned is p again, within 1e-4
\* degrees, for p within a few hundred km of ref
C1_RoundTrip ==
  \A o, k \in DOMAIN heap :
    RoundTrip(o, k) /\ Nearby(born[k].self, born[k].refval) =>
      /\ Close(born[o].init.lat, born[k].self.lat, DegTol)
      /\ Close(born[o].init.lon, born[k].self.lon, DegTol)

\* C2: the reference a position returned by toXY holds keeps the fields the
\* reference had when the position was built, whatever is assigned to the
\* caller's reference later
C2_ReferenceIsCopy ==
  \A k \in Made("toXY") :
    heap[k].refPt = born[k].init.refPt => heap[heap[k].refPt] = born[k].refval

\* C3: every object has the fields it was constructed with
C3_Immutable == \A i \in DOMAIN heap : heap[i] = born[i].init

\* C4: no call ends in an exception
C4_Total == ret.exc = "None"

\* C5: the length of the vector toXY returns is the distance distFromPoint returns
C5_Magnitude ==
  \A k \in Made("toXY") :
    FiniteLatLon(born[k].self) /\ FiniteLatLon(born[k].refval) =>
      Close(FHypot(born[k].init.x, born[k].init.y),
            distFromPoint(born[k].self, born[k].refval),
            DistTol(distFromPoint(born[k].self, born[k].refval).v))

C5_Witness ==
  \E k \in Made("toXY") :
    /\ born[k].init.x.k = "fin" /\ born[k].init.x.v # 0
    /\ born[k].init.y.k = "fin" /\ born[k].init.y.v # 0

\* C6: the distance from a to b is the distance from b to a, within 1e-6 relative
C6_Symmetric ==
  ret.op = "distFromPoint" /\ ret.exc = "None" /\ ret.val.k = "fin" =>
    Close(ret.val, distFromPoint(heap[ret.refPt], heap[ret.self]), ret.val.v \div 10^6)

C6_Witness ==
  /\ ret.op = "distFromPoint" /\ ret.val.k = "fin" /\ ret.val.v > 0
  /\ heap[ret.self].lat # heap[ret.refPt].lat
  /\ heap[ret.self].lon # heap[ret.refPt].lon

\* C7: the distance from a point to a point of the same coordinates is exactly 0
C7_Identity ==
  ret.op = "distFromPoint" /\ FiniteLatLon(heap[ret.self])
  /\ heap[ret.self] = heap[ret.refPt] => ret.exc = "None" /\ ret.val = Fin(0)

C7_Witness ==
  /\ ret.op = "distFromPoint" /\ ret.val = Fin(0) /\ ret.self # ret.refPt
  /\ heap[ret.self] = heap[ret.refPt] /\ heap[ret.self].lat.v # 0

\* C8: toXY of a point relative to a reference of the same coordinates is
\* x = 0, y = 0, with the reference it was given
C8_ZeroOffset ==
  \A k \in Made("toXY") :
    FiniteLatLon(born[k].self) /\ born[k].self = born[k].refval =>
      /\ born[k].init.x = Fin(0) /\ born[k].init.y = Fin(0)
      /\ born[k].init.refPt = born[k].src
      /\ heap[born[k].init.refPt] = born[k].refval

C8_Witness ==
  \E k \in Made("toXY") :
    /\ born[k].self = born[k].refval /\ ret.op = "toXY" /\ ret.self # ret.refPt
    /\ born[k].self.lat.v # 0 /\ born[k].self.lon.v # 0
    /\ born[k].init = PositionXY(Fin(0), Fin(0), ret.refPt)

\* p is due east of ref on the equator / due north of ref
DueEast(p, ref) ==
  /\ FiniteLatLon(p) /\ FiniteLatLon(ref) /\ p.lat.v = 0 /\ ref.lat.v = 0
  /\ p.lon.v > ref.lon.v /\ p.lon.v - ref.lon.v < 180 * DegScale
DueNorth(p, ref) ==
  /\ FiniteLatLon(p) /\ FiniteLatLon(ref) /\ p.lon = ref.lon
  /\ p.lat.v > ref.lat.v /\ p.lat.v - ref.lat.v < 180 * DegScale

\* x within the tolerance of the distance d, y within the tolerance of 0
Along(d, x, y) == Close(x, d, DistTol(d.v)) /\ Close(y, Fin(0), DistTol(d.v))

\* C9: x is the northward and y the eastward component: due east of the
\* reference on the equator y is the distance and x is 0, due north x is the
\* distance and y is 0
C9_Axes ==
  \A k \in Made("toXY") :
    /\ DueEast(born[k].self, born[k].refval) =>
         Along(distFromPoint(born[k].self, born[k].refval), born[k].init.y, born[k].init.x)
    /\ DueNorth(born[k].self, born[k].refval) =>
         Along(distFromPoint(born[k].self, born[k].refval), born[k].init.x, born[k].init.y)

C9_Witness ==
  \E k \in Made("toXY") :
    /\ DueEast(born[k].self, born[k].refval)
    /\ born[k].init.y.v > 1000 * MetreScale /\ born[k].init.x.v = 0

\* the object o was returned by toLatLon called on a position with x = 0, y = 0,
\* neither it nor its reference assigned to since it was constructed
ZeroOffset(o) ==
  /\ o \in Made("toLatLon") /\ born[o].clean
  /\ born[born[o].src].init.x = Fin(0) /\ born[born[o].src].init.y = Fin(0)
  /\ FiniteLatLon(born[born[o].src].refval)

\* C10 as stated: toLatLon at zero offset returns the latitude and longitude of
\* the reference, for every reference
C10_ZeroInverse ==
  \A o \in DOMAIN heap :
    ZeroOffset(o) =>
      /\ Close(born[o].init.lat, born[born[o].src].refval.lat, DegTol)
      /\ Close(born[o].init.lon, born[born[o].src].refval.lon, DegTol)

\* C10 amended: toLatLon at zero offset returns the latitude and longitude of
\* the reference when the reference's latitude is within [-90, 90] degrees
C10_ZeroInverseInRange ==
  \A o \in DOMAIN heap :
    ZeroOffset(o) /\ InRange(born[born[o].src].refval) =>
      /\ Close(born[o].init.lat, born[born[o].src].refval.lat, DegTol)
      /\ Close(born[o].init.lon, born[born[o].src].refval.lon, DegTol)

C10_Witness ==
  \E o \in DOMAIN heap :
    /\ ZeroOffset(o) /\ born[born[o].src].by = "caller"
    /\ born[born[o].src].refval = LatLon(Deg(-45), Deg(1))
    /\ Close(born[o].init.lat, Deg(-45), DegTol)
====
